---------------------------- MODULE Spec2Model ----------------------------
(***************************************************************************)
(* A model of vboxmanage.js (src/index.js): the argument escaper, the      *)
(* command builder VBoxManage.manage, the property parser of getProperty,  *)
(* the polling coordinator getIPAddress, and the composite operations      *)
(* isRegistered, execOnVm and killOnVm.                                    *)
(*                                                                         *)
(* JavaScript strings are sequences of one-character strings.  JavaScript  *)
(* values are records tagged by their typeof.  Time is counted in ticks,   *)
(* TicksPerMs ticks to the millisecond, so that a timeout that is not a    *)
(* whole number of milliseconds (a JavaScript Number) has a value; the     *)
(* clock Date.now() only ever shows whole milliseconds.                    *)
(***************************************************************************)
EXTENDS Integers, Sequences, FiniteSets, TLC

VARIABLES
    platform,     \* "win" or "posix": process.platform, fixed at load time
    eArg,         \* escaper run: the argument handed to escapeArg
    eOut,         \* escaper run: what escapeArg did (None before the call)
    mCommand,     \* builder run: manage's command argument
    mOptions,     \* builder run: manage's options argument
    mBuilt,       \* builder run: what the building part of manage did
    mPromise,     \* builder run: the promise manage returned
    gpState,      \* getProperty run: "none", "pending", "resolved", "rejected"
    gpStdout,     \* getProperty run: the stdout the command printed
    gpValue,      \* getProperty run: the value the promise resolved with
    now,          \* Date.now(), in milliseconds
    vmname,       \* getIPAddress: the vmname argument
    argTimeout,   \* getIPAddress: the timeout argument of the caller's call
    timeout,      \* getIPAddress: `timeout` of the running invocation, in ticks
    finishLine,   \* getIPAddress: `finishLine` of the running invocation, in ticks
    inflight,     \* getIPAddress: property queries spawned and not yet answered
    timers,       \* getIPAddress: retry timers set and not yet fired
    timerDue,     \* getIPAddress: when the pending timer is due, in milliseconds
    starts,       \* getIPAddress: when each property query was started
    replies,      \* getIPAddress: when each property query was answered
    outcome,      \* getIPAddress: "idle", "pending", "value", "absent",
                  \*   "rejected" or "thrown"
    result,       \* getIPAddress: the value or failure the call ended with
    availAt,      \* the first query at which the property has a value (0: never)
    failAt,       \* the query that fails (0: none)
    guestOs,      \* the ostype the VM reports now
    calls,        \* facade: calls made so far
    fOp,          \* facade: "none", "isRegistered", "execOnVm" or "killOnVm"
    fVm,          \* facade: the vmname argument
    fStage,       \* facade: "idle", "killInfo", "info", "guest" or "done"
    fKill,        \* facade: the kill command killOnVm chose (None before)
    fSpawned,     \* facade: the processes this call has spawned, in order
    fOutcome,     \* facade: "none", "pending", "resolved", "rejected", "thrown"
    fResult       \* facade: the value or failure the call ended with

buildVars == <<eArg, eOut, mCommand, mOptions, mBuilt, mPromise>>
parseVars == <<gpState, gpStdout, gpValue>>
pollVars == <<now, vmname, argTimeout, timeout, finishLine, inflight, timers,
              timerDue, starts, replies, outcome, result, availAt, failAt>>
facadeVars == <<guestOs, calls, fOp, fVm, fStage, fKill, fSpawned, fOutcome,
                fResult>>
vars == <<platform, buildVars, parseVars, pollVars, facadeVars>>

(***************************************************************************)
(* Bounds of the model.                                                    *)
(***************************************************************************)
MaxLen == 2       \* longest argument string handed to the escaper alone
MaxArgs == 2      \* most positional tokens of a command
MaxOpts == 2      \* most options of an options object
MaxOutLen == 3    \* longest stdout text drawn from the small alphabet
MaxQueries == 3   \* most property queries of one getIPAddress call
TicksPerMs == 2   \* resolution of a timeout: ticks to the millisecond
MaxCalls == 2     \* most facade calls made one after the other

None == [t |-> "none"]

(***************************************************************************)
(* JavaScript values.                                                      *)
(***************************************************************************)
Str(s) == [t |-> "string", s |-> s]
Num(n) == [t |-> "number", n |-> n]
Bool(b) == [t |-> "boolean", b |-> b]
Undefined == [t |-> "undefined"]

Digit(n) == <<"0", "1", "2", "3", "4", "5", "6", "7", "8", "9">>[n + 1]

\* String(v), the conversion a RegExp test and a string concatenation apply.
StringOf(v) ==
    CASE v.t = "string" -> v.s
      [] v.t = "number" -> <<Digit(v.n)>>
      [] v.t = "boolean" -> (IF v.b THEN <<"t", "r", "u", "e">>
                                    ELSE <<"f", "a", "l", "s", "e">>)
      [] OTHER -> <<"u", "n", "d", "e", "f", "i", "n", "e", "d">>

\* The outcome of a call that may throw.
Return(v) == [thrown |-> FALSE, value |-> v]
Throw(e) == [thrown |-> TRUE, error |-> e]
TypeError == "TypeError: arg.replace is not a function"

(***************************************************************************)
(* The argument escaper.                                                   *)
(***************************************************************************)
\* The grave accent, which a TLA+ string literal cannot hold.
Backtick == "U+0060"

Whitespace == {" ", "\t", "\n"}
WinSpecial == Whitespace \cup {"\\", "\"", "&"}
PosixSpecial == {" ", "\t", "\\", "|", ";", "&", "\"", Backtick, "$", "*"}

RECURSIVE ReplaceEach(_, _, _)
\* s.replace(/[set]/g, f): every character of `set` replaced by f[character].
ReplaceEach(s, set, f) ==
    IF s = <<>> THEN <<>>
    ELSE (IF Head(s) \in set THEN f[Head(s)] ELSE <<Head(s)>>)
             \o ReplaceEach(Tail(s), set, f)

RECURSIVE ReplaceFirst(_, _, _)
\* The same replace without the g flag: only the first match is replaced.
ReplaceFirst(s, set, f) ==
    IF s = <<>> THEN <<>>
    ELSE IF Head(s) \in set THEN f[Head(s)] \o Tail(s)
    ELSE <<Head(s)>> \o ReplaceFirst(Tail(s), set, f)

HasAny(s, set) == \E i \in 1..Len(s) : s[i] \in set

escapeArgWin(arg) ==
    IF ~HasAny(StringOf(arg), WinSpecial) THEN Return(arg)
    ELSE IF arg.t # "string" THEN Throw(TypeError)
    ELSE Return(Str(<<"\"">>
                    \o ReplaceEach(arg.s, {"\""}, [c \in {"\""} |-> <<"\"", "\"", "\"">>])
                    \o <<"\"">>))

escapeArgPosixFirstOnly(arg) ==
    IF arg.t # "string" THEN Throw(TypeError)
    ELSE Return(Str(ReplaceFirst(arg.s, PosixSpecial,
                                 [c \in PosixSpecial |-> <<"\\", c>>])))

escapeArgPosix(arg) ==
    IF arg.t # "string" THEN Throw(TypeError)
    ELSE Return(Str(ReplaceEach(arg.s, PosixSpecial,
                                [c \in PosixSpecial |-> <<"\\", c>>])))

escapeArg(p, arg) ==
    IF p = "win" THEN escapeArgWin(arg) ELSE escapeArgPosix(arg)

(***************************************************************************)
(* The command builder and process executor, VBoxManage.manage.            *)
(***************************************************************************)
Array(items) == [t |-> "array", items |-> items]
Object(entries) == [t |-> "object", entries |-> entries]
Entry(name, value) == [name |-> name, value |-> value]

\* `x || dflt`: undefined and the empty string are falsy.
Falsy(x) == x = Undefined \/ x = Str(<<>>)

RECURSIVE EscapeTokens(_, _)
\* for (i...) command[i] = escapeArg(command[i]): stops at the first throw.
EscapeTokens(p, items) ==
    IF items = <<>> THEN Return(<<>>)
    ELSE LET first == escapeArg(p, Head(items))
         IN  IF first.thrown THEN first
             ELSE LET rest == EscapeTokens(p, Tail(items))
                  IN  IF rest.thrown THEN rest
                      ELSE Return(<<first.value>> \o rest.value)

\* What one option pushes: `--name`, and the escaped value unless it is true.
OptionTokens(p, e) ==
    IF e.value # Bool(TRUE)
    THEN LET v == escapeArg(p, e.value)
         IN  IF v.thrown THEN v
             ELSE Return(<<Str(<<"-", "-">> \o e.name), v.value>>)
    ELSE Return(<<Str(<<"-", "-">> \o e.name)>>)

RECURSIVE PushOptions(_, _)
\* for (const [option, value] of Object.entries(options)) ...
PushOptions(p, entries) ==
    IF entries = <<>> THEN Return(<<>>)
    ELSE LET first == OptionTokens(p, Head(entries))
         IN  IF first.thrown THEN first
             ELSE LET rest == PushOptions(p, Tail(entries))
                  IN  IF rest.thrown THEN rest
                      ELSE Return(first.value \o rest.value)

\* Lines 45-62 of manage: the token list, or the exception escapeArg threw.
manageBuild(p, command, options) ==
    LET items == IF Falsy(command) THEN <<>>
                 ELSE IF command.t = "array" THEN command.items
                 ELSE <<command>>
        entries == IF Falsy(options) THEN <<>> ELSE options.entries
        positional == EscapeTokens(p, items)
    IN  IF positional.thrown THEN positional
        ELSE LET opts == PushOptions(p, entries)
             IN  IF opts.thrown THEN opts
                 ELSE Return(positional.value \o opts.value)

Platforms == {"win", "posix"}

(***************************************************************************)
(* The escaper alone: escapeArg applied to one argument.                   *)
(***************************************************************************)
Chars == {"a", "'", " ", "\t", "\\", "|", ";", "&", "\"", Backtick, "$", "*"}

StringsUpTo(n) == UNION {[1..k -> Chars] : k \in 0..n}

NonStrings == {Num(5), Bool(TRUE), Bool(FALSE), Undefined}

EscapeInputs == {Str(s) : s \in StringsUpTo(MaxLen)} \cup NonStrings

BuildIdle ==
    /\ mCommand = None
    /\ mOptions = None
    /\ mBuilt = None
    /\ mPromise = "none"

FacadeIdle ==
    /\ guestOs = "Linux26_64"
    /\ calls = 0
    /\ fOp = "none"
    /\ fVm = None
    /\ fStage = "idle"
    /\ fKill = None
    /\ fSpawned = <<>>
    /\ fOutcome = "none"
    /\ fResult = None

PollIdle ==
    /\ now = 0
    /\ vmname = None
    /\ argTimeout = None
    /\ timeout = 0
    /\ finishLine = 0
    /\ inflight = 0
    /\ timers = 0
    /\ timerDue = 0
    /\ starts = <<>>
    /\ replies = <<>>
    /\ outcome = "idle"
    /\ result = None
    /\ availAt = 0
    /\ failAt = 0

ParseIdle ==
    /\ gpState = "none"
    /\ gpStdout = None
    /\ gpValue = None

EscapeIdle ==
    /\ eArg = None
    /\ eOut = None

InitEscape ==
    /\ platform \in Platforms
    /\ eArg \in EscapeInputs
    /\ eOut = None
    /\ BuildIdle
    /\ ParseIdle
    /\ PollIdle
    /\ FacadeIdle

Escape ==
    /\ eOut = None
    /\ eArg # None
    /\ eOut' = escapeArg(platform, eArg)
    /\ UNCHANGED <<platform, eArg, mCommand, mOptions, mBuilt, mPromise, parseVars, pollVars, facadeVars>>

NextEscape == Escape

SpecEscape == InitEscape /\ [][NextEscape]_vars

(***************************************************************************)
(* The builder alone: one call of manage(command, options).                *)
(***************************************************************************)
ArgSamples == {Str(<<"a">>), Str(<<"a", " ", "b">>), Str(<<"\"", "*">>), Num(5)}

OptionNames == {<<"f", "o", "r", "c", "e">>, <<"n", "a", "m", "e">>,
                <<"v", "r", "d", "e">>}

OptionValues == {Bool(TRUE), Bool(FALSE), Num(5), Str(<<"/", "t", "m", "p">>)}

Commands ==
    {Array(items) : items \in UNION {[1..k -> ArgSamples] : k \in 0..MaxArgs}}
        \cup {Str(<<"a", " ", "b">>), Undefined}

\* Objects whose keys are distinct; Object.entries lists them in insertion order.
OptionObjects ==
    {Object(es) : es \in
        {s \in UNION {[1..k -> {Entry(n, v) : n \in OptionNames, v \in OptionValues}]
                         : k \in 0..MaxOpts}
            : \A i, j \in 1..Len(s) : i # j => s[i].name # s[j].name}}
        \cup {Undefined}

InitBuild ==
    /\ platform \in Platforms
    /\ mCommand \in Commands
    /\ mOptions \in OptionObjects
    /\ mBuilt = None
    /\ mPromise = "none"
    /\ EscapeIdle
    /\ ParseIdle
    /\ PollIdle
    /\ FacadeIdle

\* manage(command, options): build the tokens, then hand them to exec.
\* An exception of escapeArg leaves manage before any promise exists.
ManageCall ==
    /\ mBuilt = None
    /\ mCommand # None
    /\ mBuilt' = manageBuild(platform, mCommand, mOptions)
    /\ mPromise' = IF mBuilt'.thrown THEN "none" ELSE "pending"
    /\ UNCHANGED <<platform, eArg, eOut, mCommand, mOptions, parseVars, pollVars, facadeVars>>

\* The exec callback with err set: spawn failure or nonzero exit.
ExecError ==
    /\ mPromise = "pending"
    /\ mPromise' = "rejected"
    /\ UNCHANGED <<platform, eArg, eOut, mCommand, mOptions, mBuilt, parseVars, pollVars, facadeVars>>

\* The exec callback without err.
ExecSuccess ==
    /\ mPromise = "pending"
    /\ mPromise' = "resolved"
    /\ UNCHANGED <<platform, eArg, eOut, mCommand, mOptions, mBuilt, parseVars, pollVars, facadeVars>>

NextBuild == ManageCall \/ ExecError \/ ExecSuccess

SpecBuild == InitBuild /\ [][NextBuild]_vars

(***************************************************************************)
(* The property parser, VBoxManage.getProperty.                            *)
(***************************************************************************)
\* s.indexOf(c) + 1: the place after which substr starts; 0 when c is absent.
AfterIndexOf(s, c) ==
    IF \E i \in 1..Len(s) : s[i] = c
    THEN CHOOSE i \in 1..Len(s) : s[i] = c /\ \A j \in 1..(i - 1) : s[j] # c
    ELSE 0

RECURSIVE TrimStart(_)
TrimStart(s) ==
    IF s # <<>> /\ Head(s) \in Whitespace THEN TrimStart(Tail(s)) ELSE s

RECURSIVE TrimEnd(_)
TrimEnd(s) ==
    IF s # <<>> /\ s[Len(s)] \in Whitespace
    THEN TrimEnd(SubSeq(s, 1, Len(s) - 1)) ELSE s

Trim(s) == TrimEnd(TrimStart(s))

NoValueSet == <<"N", "o", " ", "v", "a", "l", "u", "e", " ", "s", "e", "t", "!">>

\* The .then handler of getProperty (lines 88-96).
ParseProperty(stdout) ==
    LET value == Trim(SubSeq(stdout, AfterIndexOf(stdout, ":") + 1, Len(stdout)))
    IN  IF value = NoValueSet THEN Undefined ELSE Str(value)

ValuePrefix == <<"V", "a", "l", "u", "e", ":">>

OutChars == {":", " ", "\n", "x"}

ShortOutputs == UNION {[1..k -> OutChars] : k \in 0..MaxOutLen}

IPText == <<"1", "0", ".", "0", ".", "2", ".", "1", "5">>

\* What `VBoxManage guestproperty get` prints for a set and an unset property.
ValueOut == ValuePrefix \o <<" ">> \o IPText \o <<"\n">>
NoValueOut == NoValueSet \o <<"\n">>

Stdouts ==
    ShortOutputs
        \cup {ValuePrefix \o s : s \in ShortOutputs}
        \cup {ValueOut, NoValueOut, ValuePrefix \o <<" ">> \o NoValueOut}

InitParse ==
    /\ platform \in Platforms
    /\ ParseIdle
    /\ EscapeIdle
    /\ BuildIdle
    /\ PollIdle
    /\ FacadeIdle

\* getProperty(vmname, propName): manage spawns `guestproperty get`.
GetPropertyCall ==
    /\ gpState = "none"
    /\ gpState' = "pending"
    /\ UNCHANGED <<platform, buildVars, pollVars, facadeVars, gpStdout, gpValue>>

\* The command succeeds and prints stdout; the .then handler parses it.
GetPropertyReply ==
    /\ gpState = "pending"
    /\ \E out \in Stdouts :
          /\ gpStdout' = out
          /\ gpValue' = ParseProperty(out)
    /\ gpState' = "resolved"
    /\ UNCHANGED <<platform, buildVars, pollVars, facadeVars>>

\* The command fails: the .then handler is skipped.
GetPropertyError ==
    /\ gpState = "pending"
    /\ gpState' = "rejected"
    /\ UNCHANGED <<platform, buildVars, pollVars, facadeVars, gpStdout, gpValue>>

NextParse == GetPropertyCall \/ GetPropertyReply \/ GetPropertyError

SpecParse == InitParse /\ [][NextParse]_vars

(***************************************************************************)
(* The polling coordinator, VBoxManage.getIPAddress.                       *)
(***************************************************************************)
retryDuration == 1000     \* const retryDuration = 1000, in milliseconds
timerDelay == 1000        \* the delay handed to setTimeout, in milliseconds

Ticks(ms) == ms * TicksPerMs

\* `timeout > -1`
Bounded(t) == t > Ticks(-1)

\* `Date.now() >= (finishLine - retryDuration)`
NearFinishLine(fl, nowMs) == Ticks(nowMs) >= fl - Ticks(retryDuration)

\* The test of the .then handler (lines 218-219): return `address` now.
Settles(address, t, fl, nowMs) ==
    address # Undefined \/ (Bounded(t) /\ NearFinishLine(fl, nowMs))

\* What the timer callback makes of `timeout` (lines 228-230).
Recomputed(t, fl, nowMs) ==
    IF Bounded(t) THEN fl - Ticks(nowMs) ELSE t

\* setTimeout is one-shot: a fired timer is no longer pending.
TimersAfterFireInterval(n) == n
TimersAfterFire(n) == n - 1

\* A rejected property query skips the .then handler: no timer is set.
TimersAfterRejectRetry(n) == n + 1
TimersAfterReject(n) == n

IPProperty ==
    <<"/", "V", "i", "r", "t", "u", "a", "l", "B", "o", "x", "/", "G",
      "u", "e", "s", "t", "I", "n", "f", "o", "/", "N", "e", "t", "/",
      "0", "/", "V", "4", "/", "I", "P">>

GuestProperty == <<"g", "u", "e", "s", "t", "p", "r", "o", "p", "e", "r", "t", "y">>

\* The command of getProperty as manage builds it.
GetPropertyCommand(p, vm, prop) ==
    manageBuild(p, Array(<<Str(GuestProperty), Str(<<"g", "e", "t">>), vm, Str(prop)>>),
                Undefined)

VmName == Str(<<"v", "m">>)
VmNames == {VmName, Undefined}

\* The timeouts a caller passes, in ticks: none, negative, a negative
\* fraction of a millisecond, and non-negative ones around one interval.
TimeoutArgs ==
    {Undefined} \cup
    {Num(t) : t \in {Ticks(-5), Ticks(-1), -1, 0, Ticks(500), Ticks(1000),
                     Ticks(1001), Ticks(1500), Ticks(2500)}}

\* How long a property query takes, and how late a timer fires (ms).
ReplyDelays == {0, 400}
TimerLateness == {0, 2, 600}
\* The clock may move between the two Date.now() reads of one callback.
ClockSteps == {0, 1}

InitPoll ==
    /\ platform \in Platforms
    /\ EscapeIdle
    /\ BuildIdle
    /\ ParseIdle
    /\ PollIdle
    /\ FacadeIdle

\* The error of the k-th property query.
QueryError(k) == [query |-> k]

\* getIPAddress(vmname, timeout) as the caller calls it: lines 206-214.
GetIPAddress ==
    /\ outcome = "idle"
    /\ \E vm \in VmNames, arg \in TimeoutArgs,
          avail \in 0..MaxQueries, fail \in 0..MaxQueries :
          LET t == IF arg = Undefined THEN Ticks(-1) ELSE arg.n
              built == GetPropertyCommand(platform, vm, IPProperty)
          IN  /\ vmname' = vm
              /\ argTimeout' = arg
              /\ availAt' = avail
              /\ failAt' = fail
              /\ timeout' = t
              /\ finishLine' = Ticks(now) + t
              /\ IF built.thrown
                 THEN /\ outcome' = "thrown"
                      /\ result' = built
                      /\ UNCHANGED <<inflight, starts>>
                 ELSE /\ outcome' = "pending"
                      /\ result' = None
                      /\ inflight' = inflight + 1
                      /\ starts' = Append(starts, now)
    /\ UNCHANGED <<platform, buildVars, parseVars, facadeVars, now, timers, timerDue,
                   replies>>

\* The stdout of the k-th property query.
QueryStdout(k) ==
    IF availAt # 0 /\ k >= availAt THEN ValueOut ELSE NoValueOut

\* The property query fails after d ms: exec's callback rejects, the
\* rejection passes through getProperty and getIPAddress to the caller.
QueryFails ==
    /\ inflight > 0
    /\ failAt = Len(replies) + 1
    /\ \E d \in ReplyDelays :
          /\ now' = now + d
          /\ replies' = Append(replies, now + d)
    /\ inflight' = inflight - 1
    /\ timers' = TimersAfterReject(timers)
    /\ timerDue' = IF timers' > timers THEN now' + timerDelay ELSE timerDue
    /\ outcome' = "rejected"
    /\ result' = QueryError(Len(replies) + 1)
    /\ UNCHANGED <<platform, buildVars, parseVars, facadeVars, vmname, argTimeout, timeout,
                   finishLine, starts, availAt, failAt>>

\* The property query succeeds after d ms: getProperty parses stdout and
\* the .then handler of getIPAddress (lines 215-239) settles or sets a timer.
QueryReplies ==
    /\ inflight > 0
    /\ failAt # Len(replies) + 1
    /\ \E d \in ReplyDelays :
          LET address == ParseProperty(QueryStdout(Len(replies) + 1))
          IN  /\ now' = now + d
              /\ replies' = Append(replies, now + d)
              /\ IF Settles(address, timeout, finishLine, now + d)
                 THEN /\ outcome' = IF address = Undefined THEN "absent" ELSE "value"
                      /\ result' = address
                      /\ UNCHANGED <<timers, timerDue>>
                 ELSE /\ timers' = timers + 1
                      /\ timerDue' = now + d + timerDelay
                      /\ UNCHANGED <<outcome, result>>
    /\ inflight' = inflight - 1
    /\ UNCHANGED <<platform, buildVars, parseVars, facadeVars, vmname, argTimeout, timeout,
                   finishLine, starts, availAt, failAt>>

\* The retry timer fires, `late` ms after it was due: the callback
\* recomputes timeout and calls getIPAddress again (lines 226-236), which
\* reads the clock anew for its finishLine and starts the next query.
TimerFires ==
    /\ timers > 0
    /\ Len(starts) < MaxQueries
    /\ \E late \in TimerLateness, step \in ClockSteps :
          LET t == Recomputed(timeout, finishLine, timerDue + late)
          IN  /\ now' = timerDue + late + step
              /\ timeout' = t
              /\ finishLine' = Ticks(timerDue + late + step) + t
              /\ starts' = Append(starts, timerDue + late + step)
    /\ timers' = TimersAfterFire(timers)
    /\ inflight' = inflight + 1
    /\ UNCHANGED <<platform, buildVars, parseVars, facadeVars, vmname, argTimeout, timerDue,
                   replies, outcome, result, availAt, failAt>>

NextPoll == GetIPAddress \/ QueryFails \/ QueryReplies \/ TimerFires

SpecPoll == InitPoll /\ [][NextPoll]_vars

(***************************************************************************)
(* The composite operations: isRegistered, execOnVm, killOnVm.             *)
(***************************************************************************)
\* The ostype values a VM reports; Undefined when the dump has no ostype.
OsTypes == {"Linux26_64", "Windows10_64", "WindowsXP", "undefined"}

\* /windows/i.test(info['ostype'])
IsWindows(os) == os \in {"Windows10_64", "WindowsXP"}

\* The shell of execOnVm written without the Windows branch.
ExecShellPosixOnly(os) == [exe |-> "/bin/sh", flag |-> "-c"]
\* The shell execOnVm runs the command with (lines 584-588).
ExecShell(os) ==
    IF IsWindows(os) THEN [exe |-> "cmd.exe", flag |-> "/c"]
    ELSE [exe |-> "/bin/sh", flag |-> "-c"]

\* The command killOnVm hands to execOnVm (lines 612-621).
KillCommand(os) ==
    IF IsWindows(os) THEN [path |-> "taskkill.exe", params |-> <<"/f", "/im", "task">>]
    ELSE [path |-> "sudo", params |-> <<"killall", "task">>]

ShowVmInfo == <<"s", "h", "o", "w", "v", "m", "i", "n", "f", "o">>
MachineReadable == <<"m", "a", "c", "h", "i", "n", "e", "r", "e", "a", "d", "a", "b", "l", "e">>
GuestControl == <<"g", "u", "e", "s", "t", "c", "o", "n", "t", "r", "o", "l">>

\* The command of getInfo as manage builds it (line 167).
GetInfoCommand(p, vm) ==
    manageBuild(p, Array(<<Str(ShowVmInfo), vm>>),
                Object(<<Entry(MachineReadable, Bool(TRUE))>>))

\* The command of execOnVm as manage builds it (lines 567-592), for a call
\* without credentials; the shell and the command line are single tokens.
GuestControlCommand(p, vm) ==
    manageBuild(p, Array(<<Str(GuestControl), vm, Str(<<"r", "u", "n">>)>>), Undefined)

InfoQuery == [cmd |-> "showvminfo", st |-> "running", os |-> "undefined"]
InfoError(k) == [failed |-> "showvminfo", spawn |-> k]
GuestError(k) == [failed |-> "guestcontrol", spawn |-> k]

FacadeOps == {"isRegistered", "execOnVm", "killOnVm"}
FacadeVmNames == {VmName, Undefined, Num(5)}

InitFacade ==
    /\ platform \in Platforms
    /\ EscapeIdle
    /\ BuildIdle
    /\ ParseIdle
    /\ PollIdle
    /\ FacadeIdle

\* The VM is reconfigured or replaced: it reports another ostype.
GuestOsChanges ==
    /\ \E os \in OsTypes : os # guestOs /\ guestOs' = os
    /\ UNCHANGED <<platform, buildVars, parseVars, pollVars, calls, fOp, fVm,
                   fStage, fKill, fSpawned, fOutcome, fResult>>

\* isRegistered, execOnVm or killOnVm is called: each starts with
\* this.getInfo(vmname), whose manage call throws or spawns showvminfo.
FacadeCall ==
    /\ fStage \in {"idle", "done"}
    /\ calls < MaxCalls
    /\ calls' = calls + 1
    /\ \E op \in FacadeOps, vm \in FacadeVmNames :
          LET built == GetInfoCommand(platform, vm)
          IN  /\ fOp' = op
              /\ fVm' = vm
              /\ fKill' = None
              /\ IF built.thrown
                 THEN /\ fStage' = "done"
                      /\ fOutcome' = "thrown"
                      /\ fResult' = built
                      /\ fSpawned' = <<>>
                 ELSE /\ fStage' = IF op = "killOnVm" THEN "killInfo" ELSE "info"
                      /\ fOutcome' = "pending"
                      /\ fResult' = None
                      /\ fSpawned' = <<InfoQuery>>
    /\ UNCHANGED <<platform, buildVars, parseVars, pollVars, guestOs>>

\* The log with its last entry, the info query in flight, marked.
InfoMarked(st, os) ==
    [fSpawned EXCEPT ![Len(fSpawned)] = [cmd |-> "showvminfo", st |-> st, os |-> os]]

\* showvminfo succeeds; getInfo parses the dump and the .then handler of
\* the operation runs with it.
InfoSucceeds ==
    /\ fStage \in {"killInfo", "info"}
    /\ IF fOp = "isRegistered"
       THEN \* .then(() => true)
            /\ fSpawned' = InfoMarked("ok", guestOs)
            /\ fStage' = "done"
            /\ fOutcome' = "resolved"
            /\ fResult' = Bool(TRUE)
            /\ fKill' = fKill
       ELSE IF fStage = "killInfo"
       THEN \* killOnVm's handler: choose the command, call execOnVm,
            \* which calls getInfo again
            /\ fKill' = KillCommand(guestOs)
            /\ fSpawned' = Append(InfoMarked("ok", guestOs), InfoQuery)
            /\ fStage' = "info"
            /\ UNCHANGED <<fOutcome, fResult>>
       ELSE \* execOnVm's handler: build and run guestcontrol
            LET built == GuestControlCommand(platform, fVm)
            IN  /\ fKill' = fKill
                /\ IF built.thrown
                   THEN /\ fSpawned' = InfoMarked("ok", guestOs)
                        /\ fStage' = "done"
                        /\ fOutcome' = "rejected"
                        /\ fResult' = built
                   ELSE /\ fSpawned' = Append(InfoMarked("ok", guestOs),
                                              [cmd |-> "guestcontrol", st |-> "running",
                                               shell |-> ExecShell(guestOs)])
                        /\ fStage' = "guest"
                        /\ UNCHANGED <<fOutcome, fResult>>
    /\ UNCHANGED <<platform, buildVars, parseVars, pollVars, guestOs, calls, fOp, fVm>>

\* showvminfo fails (spawn failure or nonzero exit): isRegistered catches,
\* execOnVm and killOnVm pass the rejection on.
InfoFails ==
    /\ fStage \in {"killInfo", "info"}
    /\ fSpawned' = InfoMarked("failed", "undefined")
    /\ fStage' = "done"
    /\ IF fOp = "isRegistered"
       THEN fOutcome' = "resolved" /\ fResult' = Bool(FALSE)
       ELSE fOutcome' = "rejected" /\ fResult' = InfoError(Len(fSpawned))
    /\ UNCHANGED <<platform, buildVars, parseVars, pollVars, guestOs, calls, fOp, fVm,
                   fKill>>

\* guestcontrol ends: the promise of manage settles the call.
GuestEnds ==
    /\ fStage = "guest"
    /\ fStage' = "done"
    /\ \E ok \in BOOLEAN :
          /\ fSpawned' = [fSpawned EXCEPT ![Len(fSpawned)].st =
                             IF ok THEN "ok" ELSE "failed"]
          /\ fOutcome' = IF ok THEN "resolved" ELSE "rejected"
          /\ fResult' = IF ok THEN Str(<<>>) ELSE GuestError(Len(fSpawned))
    /\ UNCHANGED <<platform, buildVars, parseVars, pollVars, guestOs, calls, fOp, fVm,
                   fKill>>

NextFacade == GuestOsChanges \/ FacadeCall \/ InfoSucceeds \/ InfoFails \/ GuestEnds

SpecFacade == InitFacade /\ [][NextFacade]_vars

(***************************************************************************)
(* Claims about the escaper and the builder.                               *)
(***************************************************************************)
\* How many of the first i characters of s are in `set`.
CountIn(s, i, set) == Cardinality({j \in 1..i : s[j] \in set})

\* `out` is `s` with one backslash put before each character of `set` and
\* nothing else changed, said position by position.
BackslashedBy(s, out, set) ==
    /\ Len(out) = Len(s) + CountIn(s, Len(s), set)
    /\ \A i \in 1..Len(s) :
          LET at == i + CountIn(s, i, set)
          IN  /\ out[at] = s[i]
              /\ s[i] \in set => out[at - 1] = "\\"

EscapedOnPosix == platform = "posix" /\ eArg.t = "string" /\ eOut # None

\* The set of characters the specification lists for the POSIX escaper.
ListedSpecial == {" ", "\t", "\\", "|", ";", "&", "\"", Backtick, "$"}

\* C8 as stated: on a POSIX host, escapeArg puts a backslash before each
\* character of the listed set and passes every other character through.
C8_AsStated ==
    EscapedOnPosix =>
        /\ ~eOut.thrown
        /\ BackslashedBy(eArg.s, eOut.value.s, ListedSpecial)

\* C8 amended: on a POSIX host, for every argument string, escapeArg returns
\* the argument with a backslash put before every occurrence of a character
\* of the listed set or of the asterisk; every other character (the single
\* quote included) passes through, so an argument with none of them is
\* returned unchanged.
C8_PosixEscaper ==
    EscapedOnPosix =>
        /\ ~eOut.thrown
        /\ BackslashedBy(eArg.s, eOut.value.s, ListedSpecial \cup {"*"})
        /\ ~HasAny(eArg.s, ListedSpecial \cup {"*"}) => eOut.value = eArg

\* An argument with a single quote and an asterisk has been escaped.
C8_Witness ==
    /\ EscapedOnPosix
    /\ eArg.s = <<"'", "*">>
    /\ eOut.value.s = <<"'", "\\", "*">>

BuiltFromStrings ==
    /\ mBuilt # None
    /\ mCommand.t = "array"
    /\ \A i \in 1..Len(mCommand.items) : mCommand.items[i].t = "string"
    /\ mOptions.t = "object"

\* The text of an escaped value, as the specification describes it.
EscapedText(p, v) == escapeArg(p, Str(StringOf(v))).value.s

RECURSIVE ListedOptionTokens(_, _)
ListedOptionTokens(p, entries) ==
    IF entries = <<>> THEN <<>>
    ELSE <<(<<"-", "-">> \o Head(entries).name)>>
            \o (IF Head(entries).value = Bool(TRUE) THEN <<>>
                ELSE <<EscapedText(p, Head(entries).value)>>)
            \o ListedOptionTokens(p, Tail(entries))

\* C7: on both platforms the token list manage assembles is the escaped
\* positional tokens in order, then for each option in insertion order
\* `--name` and, unless the value is true, the escaped text of the value;
\* a value such as false or 5 is no failure.
C7_BuilderTokens ==
    BuiltFromStrings =>
        /\ ~mBuilt.thrown
        /\ [i \in 1..Len(mBuilt.value) |-> StringOf(mBuilt.value[i])]
             = [i \in 1..Len(mCommand.items) |-> EscapedText(platform, mCommand.items[i])]
                  \o ListedOptionTokens(platform, mOptions.entries)

(***************************************************************************)
(* Claims about the property parser.                                       *)
(***************************************************************************)
HasValueShape(stdout) ==
    Len(stdout) >= Len(ValuePrefix)
        /\ SubSeq(stdout, 1, Len(ValuePrefix)) = ValuePrefix

\* C9: stdout of the shape `Value: <text>` yields the trimmed text after the
\* first colon, or absent for the sentinel `No value set!`; any other stdout
\* (empty, whitespace only, no colon) yields absent.
C9_ParserDegrades ==
    gpState = "resolved" =>
        IF HasValueShape(gpStdout)
        THEN LET text == Trim(SubSeq(gpStdout, Len(ValuePrefix) + 1, Len(gpStdout)))
             IN  gpValue = IF text = NoValueSet THEN Undefined ELSE Str(text)
        ELSE gpValue = Undefined

(***************************************************************************)
(* Claims about the polling coordinator.                                   *)
(***************************************************************************)
Called == outcome # "idle"

\* The caller asked for a bounded wait.
ArgBounded == Called /\ argTimeout # Undefined /\ argTimeout.n >= 0

\* The caller asked for an unbounded wait.
ArgUnbounded == Called /\ (argTimeout = Undefined \/ argTimeout.n < 0)

\* The k-th property query succeeded and found no value.
FoundAbsent(k) == failAt # k /\ ~(availAt # 0 /\ k >= availAt)

\* C1: a wait that started bounded stays bounded through every recomputation
\* of the remaining timeout, whatever the delays of the queries and the
\* lateness of the timer (so that it ends with absent).
C1_BoundedStaysBounded == ArgBounded => Bounded(timeout)

\* The last query started has been answered and found no value, with at
\* most one retry interval left to the deadline at that reply.
LastAttemptOutOfTime ==
    /\ replies # <<>>
    /\ Len(replies) = Len(starts)
    /\ FoundAbsent(Len(replies))
    /\ finishLine - Ticks(replies[Len(replies)]) <= Ticks(retryDuration)

GaveUp == outcome = "absent" /\ result = Undefined /\ timers = 0 /\ inflight = 0

\* C2: in a bounded wait (a timeout the caller gave, not negative) an
\* attempt that finds the property absent with at most one retry interval
\* left resolves the call with absent at once, with no timer set and no
\* further query.  With 0 <= timeout <= 1000 and the property never
\* available exactly one query is made and no timer is set.
C2_GiveUpBeforeOvershoot ==
    /\ (ArgBounded /\ LastAttemptOutOfTime) => GaveUp
    /\ (ArgBounded /\ argTimeout.n <= Ticks(retryDuration) /\ outcome # "thrown"
           /\ availAt = 0 /\ failAt = 0) =>
          /\ Len(starts) = 1
          /\ timers = 0
          /\ inflight = 0 => outcome = "absent"

\* The rule as the running invocation applies it: it gives up when its own
\* `timeout` passes the test `timeout > -1`, and sets a timer in that mode
\* only with more than one interval left.
RunningInvocationGivesUp ==
    /\ (Bounded(timeout) /\ LastAttemptOutOfTime) => GaveUp
    /\ (timers > 0 /\ Bounded(timeout)) =>
          finishLine - Ticks(replies[Len(replies)]) > Ticks(retryDuration)

\* C3: a call with a negative timeout, or with none, never resolves with
\* absent; it resolves with the value after exactly as many queries as it
\* takes for the property to have one, each retry started one timer delay
\* after the reply before it.
C3_UnboundedPolling ==
    ArgUnbounded =>
        /\ outcome # "absent"
        /\ outcome = "value" => Len(starts) = availAt /\ result = Str(IPText)
        /\ \A k \in 2..Len(starts) : starts[k] >= replies[k - 1] + timerDelay

\* C4: at most one property query in flight, at most one timer pending, never
\* both; a retry's query starts only after the reply to the query before it
\* and after the timer set at that reply has run its delay.
C4_Serialized ==
    /\ inflight + timers <= 1
    /\ inflight = Len(starts) - Len(replies)
    /\ \A k \in 2..Len(starts) :
          /\ k - 1 <= Len(replies)
          /\ starts[k] >= replies[k - 1] + timerDelay

\* The third query of a call is in flight.
C4_Witness == inflight = 1 /\ Len(starts) = 3 /\ Len(replies) = 2

\* C10: when the property query of an attempt fails, the call fails with
\* that failure; after it no query is started and no timer is pending.
C10_FailureEndsPolling ==
    /\ (failAt # 0 /\ Len(replies) >= failAt) => outcome = "rejected"
    /\ outcome = "rejected" =>
          /\ result = QueryError(failAt)
          /\ Len(starts) = failAt
          /\ Len(replies) = failAt
          /\ inflight = 0
          /\ timers = 0

\* The second query (a retry) of a call has failed.
C10_Witness == outcome = "rejected" /\ failAt = 2 /\ Len(replies) = 2

(***************************************************************************)
(* Claims about the composite operations.                                  *)
(***************************************************************************)
\* C5: isRegistered never fails: it yields true when the info query
\* succeeds and false when it fails in any way, a failure raised while
\* building the command included; nothing is rejected and nothing is thrown.
C5_IsRegisteredNeverFails ==
    fOp = "isRegistered" =>
        /\ fOutcome \notin {"thrown", "rejected"}
        /\ fStage = "done" =>
              /\ fOutcome = "resolved"
              /\ fResult = Bool(fSpawned # <<>> /\ fSpawned[1].st = "ok")

\* The shell of a guestcontrol process fits the ostype an info query read.
ShellFits(shell, os) ==
    IF IsWindows(os) THEN shell.exe = "cmd.exe" /\ shell.flag = "/c"
    ELSE shell.exe = "/bin/sh" /\ shell.flag = "-c"

\* C6: execOnVm and killOnVm spawn the info query first and guestcontrol
\* only right after an info query of the same call has succeeded, with the
\* shell of the ostype that query read; when an info query fails the call
\* fails with that failure and spawns no guestcontrol.
C6_InfoBeforeGuestControl ==
    fOp \in {"execOnVm", "killOnVm"} =>
        /\ fSpawned # <<>> => fSpawned[1].cmd = "showvminfo"
        /\ fOutcome = "thrown" => fSpawned = <<>>
        /\ \A i \in 1..Len(fSpawned) :
              fSpawned[i].cmd = "guestcontrol" =>
                  /\ i > 1
                  /\ fSpawned[i - 1].cmd = "showvminfo"
                  /\ fSpawned[i - 1].st = "ok"
                  /\ ShellFits(fSpawned[i].shell, fSpawned[i - 1].os)
        /\ \A i \in 1..Len(fSpawned) :
              (fSpawned[i].cmd = "showvminfo" /\ fSpawned[i].st = "failed") =>
                  /\ i = Len(fSpawned)
                  /\ fOutcome = "rejected"
                  /\ fResult = InfoError(i)
                  /\ \A j \in 1..Len(fSpawned) : fSpawned[j].cmd # "guestcontrol"

\* The second call, a killOnVm, runs its command in the Windows shell after
\* both of its info queries succeeded.
C6_Witness ==
    /\ calls = 2
    /\ fOp = "killOnVm"
    /\ Len(fSpawned) = 3
    /\ fSpawned[3].cmd = "guestcontrol"
    /\ fSpawned[3].shell.exe = "cmd.exe"

=============================================================================
